---- MODULE Spec2Model ----
(***************************************************************************)
(* The interval editing and drag-interaction engine of                     *)
(* apsley-scheduler-card (src/src/apsley-scheduler-card.ts): the days and  *)
(* their timeslots, the selection and its idle timer, the whole-slot drag  *)
(* session and the boundary-resize session.                                *)
(*                                                                         *)
(* Numbers.  Slot bounds are JavaScript numbers.  Every bound the handlers *)
(* store is an integer or NaN (0/0 in _onTrackPointerDown on a zero-length *)
(* slot), so a number is modelled as an integer with the value NaN set     *)
(* apart; comparisons with NaN are false and arithmetic on NaN gives NaN,  *)
(* as in IEEE arithmetic.  The pointer fraction is a rational, kept as     *)
(* <<numerator, denominator>>, and is computed exactly (rounding errors of *)
(* floating point are not modelled).                                       *)
(*                                                                         *)
(* Days.  dayName is not modelled: a day is its index in days, and         *)
(* days[d] is that day's timeSlots.                                        *)
(*                                                                         *)
(* Time strings.  "HH:MM" is <<hh, mm>> and "HH:MM:SS" is <<hh, mm, ss>>.  *)
(***************************************************************************)
EXTENDS Integers, Sequences, FiniteSets, TLC

VARIABLES
    time_step,                      \* _config.time_step (Null: not configured)
    days,                           \* _days: sequence of days, each a sequence of slots
    selectedDayIndex,               \* _selectedDayIndex
    selectedSlotIndex,              \* _selectedSlotIndex
    draggingTrackDayIndex,          \* _draggingTrackDayIndex
    draggingTrackSlotIndex,         \* _draggingTrackSlotIndex
    draggingTrackInitialStart,      \* _draggingTrackInitialStart
    draggingTrackInitialEnd,        \* _draggingTrackInitialEnd
    draggingTrackPointerFrac,       \* _draggingTrackPointerFrac, <<num, den>>
    draggingBoundaryDayIndex,       \* _draggingBoundaryDayIndex
    draggingBoundarySlotIndex,      \* _draggingBoundarySlotIndex
    dragBoundary,                   \* _dragBoundary: "start", "end" or "null"
    dragBoundaryOriginalInterval,   \* _dragBoundaryOriginalInterval
    focusTimeout,                   \* _focusTimeout: a timer id or Null
    isDragging,                     \* _isDragging
    timers,                         \* the window's pending timeouts: {[id, remaining]}
    capture,                        \* the element the pressed pointer is captured by
    trackWidth,                     \* width of getBoundingClientRect() of a .track
    idle,                           \* clock ticks since the selected slot was last worked on
    selectedFor,                    \* clock ticks since the selection was made
    schedules                       \* the switch.schedule_* entities of hass.states

storeVars == <<time_step, days>>
selVars   == <<selectedDayIndex, selectedSlotIndex>>
trackVars == <<draggingTrackDayIndex, draggingTrackSlotIndex, draggingTrackInitialStart,
               draggingTrackInitialEnd, draggingTrackPointerFrac>>
boundaryVars == <<draggingBoundaryDayIndex, draggingBoundarySlotIndex, dragBoundary,
                  dragBoundaryOriginalInterval>>
timerVars == <<focusTimeout, timers>>
\* the card and its window; idle and selectedFor are an observer's stopwatches,
\* no fields of the card
cardVars == <<storeVars, selVars, trackVars, boundaryVars, timerVars, isDragging, capture,
              trackWidth>>
watchVars == <<idle, selectedFor>>
\* the scheduler component of Home Assistant
haVars == <<schedules>>
vars == <<cardVars, watchVars, haVars>>

----------------------------------------------------------------------------
(* Bounds of the model *)

\* The user works on the first NumDays rows of the card.
NumDays == 2
\* Clicks on empty track create slots until the card holds MaxSlots slots.
MaxSlots == 2
\* Width of a track in pixels; pointer positions are whole pixels.
TrackWidth == 3
\* Width of a track on which a pixel is one interval and a half.
FineTrackWidth == 16
\* A captured pointer is followed up to PxMargin pixels outside the track.
PxMargin == 1
\* The selection timeout, in clock ticks.
TimeoutTicks == 2

----------------------------------------------------------------------------
(* JavaScript values *)

Null == -1
NaN == -999999

IsNaN(x) == x = NaN
Add(a, b) == IF IsNaN(a) \/ IsNaN(b) THEN NaN ELSE a + b
Sub(a, b) == IF IsNaN(a) \/ IsNaN(b) THEN NaN ELSE a - b
Lt(a, b) == ~IsNaN(a) /\ ~IsNaN(b) /\ a < b
Gt(a, b) == Lt(b, a)

\* Math.floor and Math.round of the rational n/d, d > 0 (.5 rounds up).
Floor(n, d) == n \div d
Round(n, d) == (2 * n + d) \div (2 * d)

----------------------------------------------------------------------------
(* Time grid *)

minutesPerInterval == IF time_step = Null THEN 60 ELSE time_step
maxIntervals == (24 * 60) \div minutesPerInterval
intervalsPer2Hours == 120 \div minutesPerInterval

\* trackWidth = Null: querySelectorAll('.track')[dayIndex] gives no element, and
\* the position of the pointer plays no part.
PointerXs == IF trackWidth = Null THEN {0} ELSE (0 - PxMargin)..(trackWidth + PxMargin)
ClickXs == IF trackWidth = Null THEN {0} ELSE 0..trackWidth

----------------------------------------------------------------------------
(* Data model *)

Slot(s, e, on, v) == [start |-> s, end |-> e, on |-> on, value |-> v]

\* The days setConfig provides when the configuration has none.
DefaultDays ==
    << <<Slot(48, 72, TRUE, 20)>>, <<>>, <<>>, <<>>, <<>>, <<>>, <<>> >>

\* The days of the README's example configuration.
ReadmeDays ==
    << <<Slot(8, 12, TRUE, 50)>>, <<>>, <<>>, <<>>, <<>> >>

\* The configurations the card is set up with.
DefaultConfig == [hasDays |-> FALSE, days |-> <<>>, time_step |-> Null]
ReadmeConfig == [hasDays |-> TRUE, days |-> ReadmeDays, time_step |-> Null]
Configs == {DefaultConfig, ReadmeConfig}

\* The README's days on the editor's 30-minute grid.
HalfHourConfig == [hasDays |-> TRUE, days |-> ReadmeDays, time_step |-> 30]

\* The README's Monday as the only day of the configuration.
MondayDays == << <<Slot(8, 12, TRUE, 50)>> >>
MondayConfig == [hasDays |-> TRUE, days |-> MondayDays, time_step |-> Null]

\* A configuration with a full day and a second day.
PanelDays ==
    << <<Slot(0, 4, TRUE, 20), Slot(8, 12, FALSE, 0), Slot(16, 20, TRUE, 50)>>,
       <<Slot(8, 12, TRUE, 20)>> >>
PanelConfig == [hasDays |-> TRUE, days |-> PanelDays, time_step |-> Null]

DayIndices == 1..(IF Len(days) < NumDays THEN Len(days) ELSE NumDays)
SlotIndices(dayIndex) == 1..Len(days[dayIndex])
TotalSlots == LET RECURSIVE Sum(_)
                  Sum(d) == IF d = 0 THEN 0 ELSE Len(days[d]) + Sum(d - 1)
              IN Sum(Len(days))

\* this._days.map((d, di) => di === dayIndex ? {...d, timeSlots: f(slot, si)} : d)
MapSlot(dayIndex, slotIndex, new) ==
    [days EXCEPT ![dayIndex] = [@ EXCEPT ![slotIndex] = new]]

\* Pointer capture (setPointerCapture / releasePointerCapture) of the one pointer.
NoCapture == [kind |-> "none", dayIndex |-> Null, slotIndex |-> Null, boundary |-> "null"]
SlotCapture(dayIndex, slotIndex) ==
    [kind |-> "slot", dayIndex |-> dayIndex, slotIndex |-> slotIndex, boundary |-> "null"]
BoundaryCapture(dayIndex, slotIndex, boundary) ==
    [kind |-> "boundary", dayIndex |-> dayIndex, slotIndex |-> slotIndex,
     boundary |-> boundary]

----------------------------------------------------------------------------
(* Selection and focus timeout *)

ClearTimeout(ts, id) == {t \in ts : t.id # id}
FreshId(ts) == CHOOSE i \in 1..(Cardinality(ts) + 1) : \A t \in ts : t.id # i

\* A re-arming that leaves the pending timeout to run.
ResetFocusTimeoutKeepsPending ==
    /\ timers' = timers \cup {[id |-> FreshId(timers), remaining |-> TimeoutTicks]}
    /\ focusTimeout' = FreshId(timers)

ResetFocusTimeout ==
    LET cleared == IF focusTimeout # Null THEN ClearTimeout(timers, focusTimeout)
                   ELSE timers
        id == FreshId(cleared)
    IN /\ timers' = cleared \cup {[id |-> id, remaining |-> TimeoutTicks]}
       /\ focusTimeout' = id

\* A selection that arms a timeout without clearing the pending one.
SelectTimeslotKeepsTimeout(dayIndex, slotIndex) ==
    /\ selectedDayIndex' = dayIndex
    /\ selectedSlotIndex' = slotIndex
    /\ timers' = timers \cup {[id |-> FreshId(timers), remaining |-> TimeoutTicks]}
    /\ focusTimeout' = FreshId(timers)

SelectTimeslot(dayIndex, slotIndex) ==
    /\ selectedDayIndex' = dayIndex
    /\ selectedSlotIndex' = slotIndex
    /\ ResetFocusTimeout

IsSelected(dayIndex, slotIndex) ==
    selectedDayIndex = dayIndex /\ selectedSlotIndex = slotIndex

\* The clock advances by one tick; a timeout that is due fires first.
ClockTick ==
    /\ timers # {}
    /\ \A t \in timers : t.remaining > 0
    /\ timers' = {[t EXCEPT !.remaining = @ - 1] : t \in timers}
    /\ UNCHANGED <<storeVars, trackWidth, selVars, trackVars, boundaryVars, focusTimeout, isDragging, capture>>

\* The callback of window.setTimeout in _resetFocusTimeout, for the timeout t.
FocusTimeoutCallback(t) ==
    /\ timers' = timers \ {t}
    /\ selectedDayIndex' = Null
    /\ selectedSlotIndex' = Null
    /\ focusTimeout' = Null
    /\ UNCHANGED <<storeVars, trackWidth, trackVars, boundaryVars, isDragging, capture>>

OnDisconnected ==
    /\ focusTimeout # Null
    /\ timers' = ClearTimeout(timers, focusTimeout)
    /\ UNCHANGED <<storeVars, trackWidth, selVars, trackVars, boundaryVars, focusTimeout, isDragging, capture>>

----------------------------------------------------------------------------
(* Overlap check *)

Overlaps(aStart, aEnd, bStart, bEnd) == Lt(aStart, bEnd) /\ Lt(bStart, aEnd)

\* A check that only asks whether the proposed start falls inside another slot.
WouldOverlapStartOnly(dayIndex, slotIndex, start, end) ==
    \E idx \in SlotIndices(dayIndex) :
        /\ idx # slotIndex
        /\ ~Lt(start, days[dayIndex][idx].start)
        /\ Lt(start, days[dayIndex][idx].end)

WouldOverlap(dayIndex, slotIndex, start, end) ==
    \E idx \in SlotIndices(dayIndex) :
        /\ idx # slotIndex
        /\ Overlaps(start, end, days[dayIndex][idx].start, days[dayIndex][idx].end)

----------------------------------------------------------------------------
(* Click on empty track, click on a slot *)

\* e.target !== e.currentTarget: the click landed on a slot drawn over the track.
OnChild(dayIndex, px) ==
    \E idx \in SlotIndices(dayIndex) :
        LET slot == days[dayIndex][idx]
        IN /\ ~IsNaN(slot.start) /\ ~IsNaN(slot.end)
           /\ slot.start * trackWidth < px * maxIntervals
           /\ px * maxIntervals < slot.end * trackWidth

\* A start that stays at the clicked interval when the slot does not fit.
ClickIntervalStartUnshifted(px) == Floor(px * maxIntervals, trackWidth)

ClickIntervalStart(px) ==
    LET intervalStart == Floor(px * maxIntervals, trackWidth)
    IN IF intervalStart + intervalsPer2Hours > maxIntervals
       THEN maxIntervals - intervalsPer2Hours
       ELSE intervalStart

ClickIntervalEnd(px) ==
    LET intervalStart == Floor(px * maxIntervals, trackWidth)
    IN IF intervalStart + intervalsPer2Hours > maxIntervals
       THEN maxIntervals
       ELSE intervalStart + intervalsPer2Hours

\* A click handler that restarts the timeout when it drops the proposal.
OnTrackClickRearms(dayIndex, px) ==
    /\ TotalSlots < MaxSlots
    /\ ~OnChild(dayIndex, px)
    /\ LET intervalStart == ClickIntervalStart(px)
           intervalEnd == ClickIntervalEnd(px)
           overlaps == \E idx \in SlotIndices(dayIndex) :
                           Overlaps(intervalStart, intervalEnd,
                                    days[dayIndex][idx].start, days[dayIndex][idx].end)
       IN IF ~overlaps
          THEN /\ days' = [days EXCEPT ![dayIndex] =
                              Append(@, Slot(intervalStart, intervalEnd, TRUE, 20))]
               /\ SelectTimeslot(dayIndex, Len(days[dayIndex]) + 1)
               /\ UNCHANGED <<time_step, trackWidth, trackVars, boundaryVars, isDragging,
                              capture>>
          ELSE /\ ResetFocusTimeout
               /\ UNCHANGED <<storeVars, trackWidth, selVars, trackVars, boundaryVars,
                              isDragging, capture>>

OnTrackClick(dayIndex, px) ==
    /\ TotalSlots < MaxSlots
    /\ ~OnChild(dayIndex, px)
    /\ LET intervalStart == ClickIntervalStart(px)
           intervalEnd == ClickIntervalEnd(px)
           overlaps == \E idx \in SlotIndices(dayIndex) :
                           Overlaps(intervalStart, intervalEnd,
                                    days[dayIndex][idx].start, days[dayIndex][idx].end)
       IN IF trackWidth = Null THEN UNCHANGED cardVars
          ELSE IF ~overlaps
          THEN /\ days' = [days EXCEPT ![dayIndex] =
                              Append(@, Slot(intervalStart, intervalEnd, TRUE, 20))]
               /\ SelectTimeslot(dayIndex, Len(days[dayIndex]) + 1)
               /\ UNCHANGED <<time_step, trackWidth, trackVars, boundaryVars, isDragging, capture>>
          ELSE UNCHANGED cardVars

OnTimeslotClick(dayIndex, slotIndex) ==
    /\ SelectTimeslot(dayIndex, slotIndex)
    /\ UNCHANGED <<storeVars, trackWidth, trackVars, boundaryVars, isDragging, capture>>

----------------------------------------------------------------------------
(* Toggle / value / mode / delete *)

\* The values the slider and the mode buttons are given.
NewValues == {20, 21}
Modes == {"off", "on", "value"}

\* A handler that leaves the timeout alone.
ResetIfSelectedNever(dayIndex, slotIndex) == UNCHANGED timerVars

\* if (this._selectedDayIndex === dayIndex && this._selectedSlotIndex === slotIndex)
\*     this._resetFocusTimeout();
ResetIfSelected(dayIndex, slotIndex) ==
    IF IsSelected(dayIndex, slotIndex) THEN ResetFocusTimeout ELSE UNCHANGED timerVars

\* A toggle that drops the value when it switches the slot off, as "off" mode does.
ToggledSlotAsMode(slot) ==
    IF slot.on THEN [slot EXCEPT !.on = FALSE, !.value = 0] ELSE [slot EXCEPT !.on = TRUE]

\* { ...slot, on: !slot.on }
ToggledSlot(slot) == [slot EXCEPT !.on = ~@]

ToggleSlotOnOff(dayIndex, slotIndex) ==
    /\ ResetIfSelected(dayIndex, slotIndex)
    /\ days' = (IF slotIndex \notin SlotIndices(dayIndex) THEN days
                ELSE MapSlot(dayIndex, slotIndex, ToggledSlot(days[dayIndex][slotIndex])))
    /\ UNCHANGED <<time_step, trackWidth, selVars, trackVars, boundaryVars, isDragging, capture>>

UpdateSlotValue(dayIndex, slotIndex, newValue) ==
    /\ ResetIfSelected(dayIndex, slotIndex)
    /\ days' = (IF slotIndex \notin SlotIndices(dayIndex) THEN days
                ELSE MapSlot(dayIndex, slotIndex,
                             [days[dayIndex][slotIndex] EXCEPT !.value = newValue]))
    /\ UNCHANGED <<time_step, trackWidth, selVars, trackVars, boundaryVars, isDragging, capture>>

SetSlotMode(dayIndex, slotIndex, mode) ==
    /\ LET slot == days[dayIndex][slotIndex]
       IN days' = (IF slotIndex \notin SlotIndices(dayIndex) THEN days
                   ELSE MapSlot(dayIndex, slotIndex,
                    CASE mode = "off" -> [slot EXCEPT !.on = FALSE, !.value = 0]
                      [] mode = "on" -> [slot EXCEPT !.on = TRUE, !.value = 0]
                      [] OTHER -> [slot EXCEPT !.on = TRUE,
                                               !.value = IF slot.value > 0 THEN slot.value
                                                         ELSE 20]))
    /\ ResetIfSelected(dayIndex, slotIndex)
    /\ UNCHANGED <<time_step, trackWidth, selVars, trackVars, boundaryVars, isDragging, capture>>

\* A removal that drops the last slot whatever the index.
RemoveLast(slots, slotIndex) == SubSeq(slots, 1, Len(slots) - 1)

\* day.timeSlots.filter((_, si) => si !== slotIndex)
RemoveAt(slots, slotIndex) ==
    IF slotIndex \notin 1..Len(slots) THEN slots
    ELSE [i \in 1..(Len(slots) - 1) |-> IF i < slotIndex THEN slots[i] ELSE slots[i + 1]]

DeleteSlot(dayIndex, slotIndex) ==
    /\ days' = [days EXCEPT ![dayIndex] = RemoveAt(@, slotIndex)]
    /\ IF IsSelected(dayIndex, slotIndex)
       THEN selectedDayIndex' = Null /\ selectedSlotIndex' = Null
       ELSE UNCHANGED selVars
    \* the re-render removes the day's last slot element, and with it its capture
    /\ capture' = (IF capture.dayIndex = dayIndex
                      /\ capture.slotIndex = Len(days[dayIndex])
                   THEN NoCapture ELSE capture)
    /\ UNCHANGED <<time_step, trackWidth, trackVars, boundaryVars, timerVars, isDragging>>

----------------------------------------------------------------------------
(* Drag logic: move entire slot *)

FracNaN == <<0, 0>>
FracZero == <<0, 1>>
FracOne == <<1, 1>>

RECURSIVE Gcd(_, _)
Gcd(a, b) == IF b = 0 THEN a ELSE Gcd(b, a % b)

\* Math.max(0, Math.min(1, (pointerInterval - slot.start) / duration)) with
\* pointerInterval = (px / trackRect.width) * maxIntervals.  x/0 is +Infinity, -Infinity
\* or (0/0) NaN, and Math.min and Math.max return NaN when given NaN.
PointerFrac(px, slot) ==
    IF IsNaN(slot.start) \/ IsNaN(slot.end) THEN FracNaN
    ELSE LET duration == slot.end - slot.start
             n0 == px * maxIntervals - slot.start * trackWidth
             d0 == trackWidth * duration
             num == IF d0 < 0 THEN 0 - n0 ELSE n0
             den == IF d0 < 0 THEN 0 - d0 ELSE d0
         IN IF den = 0
            THEN (IF n0 = 0 THEN FracNaN ELSE IF n0 > 0 THEN FracOne ELSE FracZero)
            ELSE IF num <= 0 THEN FracZero
            ELSE IF num >= den THEN FracOne
            ELSE <<num \div Gcd(num, den), den \div Gcd(num, den)>>

OnTrackPointerDown(dayIndex, slotIndex, px) ==
    LET slot == days[dayIndex][slotIndex]
    IN /\ IF ~IsSelected(dayIndex, slotIndex)
          THEN SelectTimeslot(dayIndex, slotIndex)
          ELSE ResetFocusTimeout /\ UNCHANGED selVars
       /\ IF slotIndex \notin SlotIndices(dayIndex)
          THEN \* if (!slot) return
               UNCHANGED <<trackVars, isDragging, capture>>
          ELSE /\ draggingTrackDayIndex' = dayIndex
               /\ draggingTrackSlotIndex' = slotIndex
               /\ draggingTrackInitialStart' = slot.start
               /\ draggingTrackInitialEnd' = slot.end
               /\ IF trackWidth = Null
                  THEN \* if (!trackRect) return
                       UNCHANGED <<draggingTrackPointerFrac, isDragging, capture>>
                  ELSE /\ draggingTrackPointerFrac' = PointerFrac(px, slot)
                       /\ isDragging' = TRUE
                       /\ capture' = SlotCapture(dayIndex, slotIndex)
       /\ UNCHANGED <<storeVars, trackWidth, boundaryVars>>

\* let newStart = originalStart + Math.round(Math.round(pointerInterval) - anchorInterval)
\* with anchorInterval = originalStart + frac * duration.
RawNewStart(px, originalStart, originalEnd, frac) ==
    IF IsNaN(originalStart) \/ IsNaN(originalEnd) \/ frac = FracNaN THEN NaN
    ELSE LET duration == originalEnd - originalStart
             pointerInterval == Round(px * maxIntervals, trackWidth)
             rawDelta == Round((pointerInterval - originalStart) * frac[2]
                                   - frac[1] * duration, frac[2])
         IN originalStart + rawDelta

\* Clamp to valid range [0..maxIntervals], by shifting.
MoveStart(px, originalStart, originalEnd, frac) ==
    LET duration == Sub(originalEnd, originalStart)
        newStart0 == RawNewStart(px, originalStart, originalEnd, frac)
        newEnd0 == Add(newStart0, duration)
        newStart1 == IF Lt(newStart0, 0) THEN 0 ELSE newStart0
        newEnd1 == IF Lt(newStart0, 0) THEN duration ELSE newEnd0
    IN IF Gt(newEnd1, maxIntervals) THEN Sub(maxIntervals, duration) ELSE newStart1

MoveEnd(px, originalStart, originalEnd, frac) ==
    LET duration == Sub(originalEnd, originalStart)
        newStart0 == RawNewStart(px, originalStart, originalEnd, frac)
        newEnd0 == Add(newStart0, duration)
        newEnd1 == IF Lt(newStart0, 0) THEN duration ELSE newEnd0
    IN IF Gt(newEnd1, maxIntervals) THEN maxIntervals ELSE newEnd1

TrackSessionActive == draggingTrackDayIndex # Null /\ draggingTrackSlotIndex # Null

\* A move that adds the sample's delta to the slot's current start.
OnTrackPointerMoveFromCurrent(px) ==
    /\ TrackSessionActive
    /\ LET dayIndex == draggingTrackDayIndex
           slotIndex == draggingTrackSlotIndex
           rawDelta == Sub(RawNewStart(px, draggingTrackInitialStart,
                                       draggingTrackInitialEnd, draggingTrackPointerFrac),
                           draggingTrackInitialStart)
       IN IF slotIndex \notin SlotIndices(dayIndex) THEN UNCHANGED cardVars
          ELSE LET slot == days[dayIndex][slotIndex]
                   duration == Sub(draggingTrackInitialEnd, draggingTrackInitialStart)
                   newStart0 == Add(slot.start, rawDelta)
                   newStart1 == IF Lt(newStart0, 0) THEN 0 ELSE newStart0
                   newEnd1 == Add(newStart1, duration)
                   newStart == IF Gt(newEnd1, maxIntervals) THEN Sub(maxIntervals, duration)
                               ELSE newStart1
                   newEnd == IF Gt(newEnd1, maxIntervals) THEN maxIntervals ELSE newEnd1
               IN IF WouldOverlap(dayIndex, slotIndex, newStart, newEnd)
                  THEN UNCHANGED cardVars
                  ELSE /\ days' = MapSlot(dayIndex, slotIndex,
                                          [slot EXCEPT !.start = newStart, !.end = newEnd])
                       /\ UNCHANGED <<time_step, trackWidth, selVars, trackVars,
                                      boundaryVars, timerVars, isDragging, capture>>

OnTrackPointerMove(px) ==
    /\ TrackSessionActive
    /\ LET dayIndex == draggingTrackDayIndex
           slotIndex == draggingTrackSlotIndex
           newStart == MoveStart(px, draggingTrackInitialStart, draggingTrackInitialEnd,
                                 draggingTrackPointerFrac)
           newEnd == MoveEnd(px, draggingTrackInitialStart, draggingTrackInitialEnd,
                             draggingTrackPointerFrac)
       IN IF trackWidth = Null THEN UNCHANGED cardVars
          ELSE IF slotIndex \notin SlotIndices(dayIndex) THEN UNCHANGED cardVars
          ELSE IF WouldOverlap(dayIndex, slotIndex, newStart, newEnd) THEN UNCHANGED cardVars
          ELSE /\ days' = MapSlot(dayIndex, slotIndex,
                                  [days[dayIndex][slotIndex] EXCEPT !.start = newStart,
                                                                    !.end = newEnd])
               /\ UNCHANGED <<time_step, trackWidth, selVars, trackVars, boundaryVars, timerVars,
                              isDragging, capture>>

\* pointerup, pointercancel and pointerleave of a slot.
OnTrackPointerUp ==
    /\ isDragging' = FALSE
    /\ draggingTrackDayIndex' = Null
    /\ draggingTrackSlotIndex' = Null
    /\ draggingTrackInitialStart' = 0
    /\ draggingTrackInitialEnd' = 0
    /\ draggingTrackPointerFrac' = FracZero
    /\ ResetFocusTimeout
    /\ capture' = NoCapture
    /\ UNCHANGED <<storeVars, trackWidth, selVars, boundaryVars>>

----------------------------------------------------------------------------
(* Drag logic: boundary *)

Boundaries == {"start", "end"}

\* A handler without the check that the slot is the selected one.
OnPointerDownBoundaryAnySlot(dayIndex, slotIndex, boundary) ==
    LET slot == days[dayIndex][slotIndex]
    IN /\ draggingBoundaryDayIndex' = dayIndex
       /\ draggingBoundarySlotIndex' = slotIndex
       /\ dragBoundary' = boundary
       /\ dragBoundaryOriginalInterval' =
              (IF boundary = "start" THEN slot.start ELSE slot.end)
       /\ isDragging' = TRUE
       /\ ResetFocusTimeout
       /\ capture' = BoundaryCapture(dayIndex, slotIndex, boundary)
       /\ UNCHANGED <<storeVars, trackWidth, selVars, trackVars>>

OnPointerDownBoundary(dayIndex, slotIndex, boundary) ==
    IF ~IsSelected(dayIndex, slotIndex) THEN UNCHANGED cardVars
    ELSE IF slotIndex \notin SlotIndices(dayIndex)
    THEN \* if (!slot) return; an element that is no longer rendered holds no pointer
         UNCHANGED cardVars
    ELSE LET slot == days[dayIndex][slotIndex]
         IN /\ draggingBoundaryDayIndex' = dayIndex
            /\ draggingBoundarySlotIndex' = slotIndex
            /\ dragBoundary' = boundary
            /\ dragBoundaryOriginalInterval' =
                   (IF boundary = "start" THEN slot.start ELSE slot.end)
            /\ isDragging' = TRUE
            /\ ResetFocusTimeout
            /\ capture' = BoundaryCapture(dayIndex, slotIndex, boundary)
            /\ UNCHANGED <<storeVars, trackWidth, selVars, trackVars>>

BoundarySessionOn(dayIndex, slotIndex, boundary) ==
    /\ draggingBoundaryDayIndex # Null
    /\ draggingBoundarySlotIndex # Null
    /\ dragBoundary # "null"
    /\ draggingBoundaryDayIndex = dayIndex
    /\ draggingBoundarySlotIndex = slotIndex
    /\ dragBoundary = boundary
    /\ dragBoundaryOriginalInterval # Null

\* Math.round((pointerPx / trackRect.width) * maxIntervals), clamped to [0, maxIntervals]
BoundaryInterval(px) ==
    LET newInterval == Round(px * maxIntervals, trackWidth)
    IN IF newInterval < 0 THEN 0
       ELSE IF newInterval > maxIntervals THEN maxIntervals
       ELSE newInterval

\* A resize without the checks against the slot's own other boundary.
ResizedSlotNoBound(dayIndex, slotIndex, boundary, newInterval) ==
    LET slot == days[dayIndex][slotIndex]
    IN IF boundary = "start"
       THEN IF ~WouldOverlap(dayIndex, slotIndex, newInterval, slot.end)
            THEN [slot EXCEPT !.start = newInterval]
            ELSE slot
       ELSE IF ~WouldOverlap(dayIndex, slotIndex, slot.start, newInterval)
            THEN [slot EXCEPT !.end = newInterval]
            ELSE slot

\* The slot a resize sample leaves at (dayIndex, slotIndex).
ResizedSlot(dayIndex, slotIndex, boundary, newInterval) ==
    LET slot == days[dayIndex][slotIndex]
    IN IF boundary = "start"
       THEN IF Gt(newInterval, slot.end) THEN slot
            ELSE IF ~WouldOverlap(dayIndex, slotIndex, newInterval, slot.end)
                 THEN [slot EXCEPT !.start = newInterval]
                 ELSE slot
       ELSE IF Lt(newInterval, slot.start) THEN slot
            ELSE IF ~WouldOverlap(dayIndex, slotIndex, slot.start, newInterval)
                 THEN [slot EXCEPT !.end = newInterval]
                 ELSE slot

OnPointerMoveBoundary(dayIndex, slotIndex, boundary, px) ==
    /\ ResetFocusTimeout
    /\ IF /\ BoundarySessionOn(dayIndex, slotIndex, boundary)
          /\ trackWidth # Null
          /\ slotIndex \in SlotIndices(dayIndex)
       THEN days' = MapSlot(dayIndex, slotIndex,
                            ResizedSlot(dayIndex, slotIndex, boundary, BoundaryInterval(px)))
       ELSE UNCHANGED days
    /\ UNCHANGED <<time_step, trackWidth, selVars, trackVars, boundaryVars, isDragging, capture>>

OnPointerUpBoundary(dayIndex, slotIndex, boundary) ==
    /\ ResetFocusTimeout
    /\ isDragging' = FALSE
    /\ draggingBoundaryDayIndex' = Null
    /\ draggingBoundarySlotIndex' = Null
    /\ dragBoundary' = "null"
    /\ dragBoundaryOriginalInterval' = Null
    /\ capture' = NoCapture
    /\ UNCHANGED <<storeVars, trackWidth, selVars, trackVars>>

----------------------------------------------------------------------------
(* The card *)

\* The field initialisers of the class, then setConfig(config).
SetConfig(config) ==
    /\ time_step = config.time_step
    /\ days = (IF ~config.hasDays THEN DefaultDays ELSE config.days)
    /\ selectedDayIndex = Null
    /\ selectedSlotIndex = Null
    /\ draggingTrackDayIndex = Null
    /\ draggingTrackSlotIndex = Null
    /\ draggingTrackInitialStart = 0
    /\ draggingTrackInitialEnd = 0
    /\ draggingTrackPointerFrac = FracZero
    /\ draggingBoundaryDayIndex = Null
    /\ draggingBoundarySlotIndex = Null
    /\ dragBoundary = "null"
    /\ dragBoundaryOriginalInterval = Null
    /\ focusTimeout = Null
    /\ isDragging = FALSE
    /\ timers = {}
    /\ capture = NoCapture

Init == \E config \in Configs : SetConfig(config) /\ trackWidth = TrackWidth /\ idle = 0 /\ selectedFor = 0 /\ schedules = {}

Slots == UNION {{<<dayIndex, slotIndex>> : slotIndex \in SlotIndices(dayIndex)} :
                   dayIndex \in DayIndices}

\* The elements an event can be delivered to: with the pointer captured, the
\* capturing element; otherwise any slot or boundary of the rendered rows.
SlotTargets ==
    {x \in Slots : capture.kind = "none" \/ capture = SlotCapture(x[1], x[2])}

BoundaryTargets ==
    {x \in Slots \X Boundaries :
        capture.kind = "none" \/ capture = BoundaryCapture(x[1][1], x[1][2], x[2])}

\* The pointer is over the box of the slot (a slot whose style is not a number
\* is laid out at the left end of the track).
OverSlot(dayIndex, slotIndex, px) ==
    LET slot == days[dayIndex][slotIndex]
    IN IF trackWidth = Null THEN TRUE
       ELSE IF IsNaN(slot.start) \/ IsNaN(slot.end) THEN px = 0
       ELSE /\ slot.start * trackWidth <= px * maxIntervals
            /\ px * maxIntervals <= slot.end * trackWidth

\* The stopwatches: both are 0 while nothing is selected; selectedFor restarts when
\* the selection changes, idle when the step selected a slot or worked on the
\* selected slot (touched).
Stopwatch(touched) ==
    /\ idle' = (IF selectedDayIndex' = Null \/ touched THEN 0 ELSE idle)
    /\ selectedFor' = (IF selectedDayIndex' = Null \/ selVars' # selVars THEN 0
                       ELSE selectedFor)

\* A step of the pointer, the panel or the window: no service of Home Assistant
\* is called.
Watch(touched) == Stopwatch(touched) /\ UNCHANGED schedules

WatchTick ==
    /\ idle' = (IF selectedDayIndex = Null THEN 0
                ELSE IF idle < TimeoutTicks THEN idle + 1 ELSE idle)
    /\ selectedFor' = (IF selectedDayIndex = Null THEN 0
                       ELSE IF selectedFor <= TimeoutTicks THEN selectedFor + 1
                       ELSE selectedFor)
    /\ UNCHANGED schedules

Tick == ClockTick /\ WatchTick

TimerFire == \E t \in timers : t.remaining = 0 /\ FocusTimeoutCallback(t) /\ Watch(FALSE)

\* The timeout fires after the whole of it has elapsed with no event (time not counted).
TimerElapse == \E t \in timers : FocusTimeoutCallback(t) /\ Watch(FALSE)

DisconnectedCallback == OnDisconnected /\ Watch(FALSE)

TrackClick ==
    /\ capture.kind = "none"
    /\ \E dayIndex \in DayIndices, px \in ClickXs :
           /\ OnTrackClick(dayIndex, px)
           /\ Watch(days' # days)

TimeslotClick ==
    /\ capture.kind = "none"
    /\ \E x \in Slots : OnTimeslotClick(x[1], x[2]) /\ Watch(TRUE)

\* The buttons and the slider of the options panel are worked with the pointer,
\* so not while it is captured by a slot or a boundary.
Toggle ==
    /\ capture.kind = "none"
    /\ \E x \in Slots : ToggleSlotOnOff(x[1], x[2]) /\ Watch(IsSelected(x[1], x[2]))

UpdateValue ==
    /\ capture.kind = "none"
    /\ \E x \in Slots, newValue \in NewValues :
           UpdateSlotValue(x[1], x[2], newValue) /\ Watch(IsSelected(x[1], x[2]))

SetMode ==
    /\ capture.kind = "none"
    /\ \E x \in Slots, mode \in Modes : SetSlotMode(x[1], x[2], mode) /\ Watch(IsSelected(x[1], x[2]))

Delete ==
    /\ capture.kind = "none"
    /\ \E x \in Slots : DeleteSlot(x[1], x[2]) /\ Watch(FALSE)

TrackPointerDown ==
    /\ capture.kind = "none"
    /\ \E x \in Slots, px \in ClickXs :
           /\ OverSlot(x[1], x[2], px)
           /\ OnTrackPointerDown(x[1], x[2], px)
           /\ Watch(TRUE)

TrackPointerMove ==
    /\ SlotTargets # {}
    /\ \E px \in PointerXs : OnTrackPointerMove(px)
    /\ Watch(FALSE)

TrackPointerUp ==
    /\ SlotTargets # {}
    /\ OnTrackPointerUp
    /\ Watch(FALSE)

PointerDownBoundary ==
    /\ capture.kind = "none"
    /\ \E x \in Slots, boundary \in Boundaries : OnPointerDownBoundary(x[1], x[2], boundary)
    /\ Watch(FALSE)

PointerMoveBoundary ==
    \E x \in BoundaryTargets, px \in PointerXs :
        /\ OnPointerMoveBoundary(x[1][1], x[1][2], x[2], px)
        /\ Watch(IsSelected(x[1][1], x[1][2])
                 /\ BoundarySessionOn(x[1][1], x[1][2], x[2]))

PointerUpBoundary ==
    /\ \E x \in BoundaryTargets : OnPointerUpBoundary(x[1][1], x[1][2], x[2])
    /\ Watch(FALSE)

\* pointercancel while a boundary holds the pointer: the boundary elements bind
\* pointerdown, pointermove and pointerup only, so no handler runs, and the browser
\* releases the capture.
PointerCancelBoundary ==
    /\ capture.kind = "boundary"
    /\ capture' = NoCapture
    /\ UNCHANGED <<storeVars, trackWidth, selVars, trackVars, boundaryVars, timerVars,
                   isDragging>>
    /\ Watch(FALSE)

\* The Delete button of the options panel, worked by the keyboard or by another
\* pointer while a slot or a boundary holds the pressed pointer: the panel shows
\* the selected slot.
DeleteWhileDragging ==
    /\ capture.kind # "none"
    /\ selectedDayIndex # Null
    /\ selectedSlotIndex \in SlotIndices(selectedDayIndex)
    /\ DeleteSlot(selectedDayIndex, selectedSlotIndex)
    /\ Watch(FALSE)

\* Events and operations tagged with the index of a slot that is no longer in its
\* day: the index one past the day's last slot.
GoneSlots == {<<dayIndex, Len(days[dayIndex]) + 1>> : dayIndex \in DayIndices}

GoneTimeslotClick ==
    /\ capture.kind = "none"
    /\ \E x \in GoneSlots : OnTimeslotClick(x[1], x[2]) /\ Watch(TRUE)

GoneTrackPointerDown ==
    /\ capture.kind = "none"
    /\ \E x \in GoneSlots, px \in ClickXs : OnTrackPointerDown(x[1], x[2], px) /\ Watch(TRUE)

GonePointerDownBoundary ==
    /\ capture.kind = "none"
    /\ \E x \in GoneSlots, boundary \in Boundaries :
           OnPointerDownBoundary(x[1], x[2], boundary) /\ Watch(FALSE)

GonePointerMoveBoundary ==
    /\ capture.kind = "none"
    /\ \E x \in GoneSlots, boundary \in Boundaries, px \in PointerXs :
           OnPointerMoveBoundary(x[1], x[2], boundary, px) /\ Watch(FALSE)

GoneToggle ==
    /\ capture.kind = "none"
    /\ \E x \in GoneSlots : ToggleSlotOnOff(x[1], x[2]) /\ Watch(FALSE)

GoneUpdateValue ==
    /\ capture.kind = "none"
    /\ \E x \in GoneSlots, newValue \in NewValues :
           UpdateSlotValue(x[1], x[2], newValue) /\ Watch(FALSE)

GoneDelete ==
    /\ capture.kind = "none"
    /\ \E x \in GoneSlots : DeleteSlot(x[1], x[2]) /\ Watch(FALSE)

----------------------------------------------------------------------------
(* Home Assistant: load and sync *)

\* The steps the editor offers for time_step.
TimeSteps == {10, 15, 30, 60}

\* _formatIntervals: "HH:MM" of a number of intervals.
FormatIntervals(intervals) ==
    LET clamped == IF intervals < 0 THEN 0
                   ELSE IF intervals > maxIntervals THEN maxIntervals
                   ELSE intervals
        totalMinutes == clamped * minutesPerInterval
    IN <<totalMinutes \div 60, totalMinutes % 60>>

\* _parseTimeToIntervals with minutesPerInterval = step: hour * intervalsPerHour +
\* Math.floor(minute / step).  60 / step is a whole number for the steps of the
\* editor.
ParseTime(timeStr, step) == timeStr[1] * (60 \div step) + Floor(timeStr[2], step)

ParseTimeToIntervals(timeStr) == ParseTime(timeStr, minutesPerInterval)

\* start and stop of a slot as _syncSchedules writes them.
SyncStart(slot) == FormatIntervals(slot.start) \o <<0>>
SyncStop(slot) ==
    LET stop == FormatIntervals(slot.end) \o <<0>>
    IN IF stop = <<24, 0, 0>> THEN <<23, 59, 59>> ELSE stop

\* _buildSlotActions for an entity of the climate domain.
BuildSlotActions(slot) ==
    IF ~slot.on
    THEN [service |-> "climate.set_hvac_mode", hvac_mode |-> "off", temperature |-> Null]
    ELSE [service |-> "climate.set_temperature", hvac_mode |-> "heat",
          temperature |-> slot.value]

SyncTimeslot(slot) ==
    [start |-> SyncStart(slot), stop |-> SyncStop(slot), actions |-> BuildSlotActions(slot)]

\* The slot the load path makes of a timeslot of a schedule.
LoadedSlot(timeslot, step) ==
    LET action == timeslot.actions
        temperature == IF action.temperature = Null THEN 20 ELSE action.temperature
        heats == \/ action.service = "climate.set_temperature"
                 \/ action.service = "climate.set_hvac_mode" /\ action.hvac_mode = "heat"
    IN Slot(ParseTime(timeslot.start, step), ParseTime(timeslot.stop, step),
            heats, IF heats THEN temperature ELSE 0)

\* localSlots of one schedule: timeslots with endIntervals <= startIntervals are
\* skipped.
LocalSlots(schedule, step) ==
    LET loaded == [i \in 1..Len(schedule.timeslots) |->
                       LoadedSlot(schedule.timeslots[i], step)]
    IN SelectSeq(loaded, LAMBDA slot : slot.end > slot.start)

\* The schedules _loadExistingSchedulesFromHA and _syncSchedules look at for a
\* weekday: of the configured entity, for that weekday, switched on.
Matching(remote, dayIndex) ==
    {s \in remote : s.ours /\ dayIndex \in s.weekdays /\ s.on}

RECURSIVE LoadedFrom(_, _, _, _)
LoadedFrom(remote, dayIndex, step, ids) ==
    IF ids = {} THEN <<>>
    ELSE LET id == CHOOSE i \in ids : \A j \in ids : i <= j
             s == CHOOSE x \in remote : x.id = id
         IN (IF s \in Matching(remote, dayIndex) THEN LocalSlots(s, step) ELSE <<>>)
                \o LoadedFrom(remote, dayIndex, step, ids \ {id})

\* _days after _loadExistingSchedulesFromHA: one day per weekday, the slots of
\* the schedules in the order of hass.states.
LoadedDays(remote, step) ==
    [dayIndex \in 1..NumDays |->
        LoadedFrom(remote, dayIndex, step, {s.id : s \in remote})]

FreshScheduleId(remote) ==
    CHOOSE i \in 1..(Cardinality(remote) + 1) : \A s \in remote : s.id # i

\* The loop of _syncSchedules from day dayIndex on, every call of a service
\* succeeding: a day without slots is skipped; for a day with slots the matching
\* schedules of the snapshot of hass.states are removed and one schedule is added.
RECURSIVE SyncedFrom(_, _)
SyncedFrom(remote, dayIndex) ==
    IF dayIndex > Len(days) THEN remote
    ELSE IF Len(days[dayIndex]) = 0 THEN SyncedFrom(remote, dayIndex + 1)
    ELSE LET kept == remote \ Matching(schedules, dayIndex)
             added == [id |-> FreshScheduleId(kept),
                       weekdays |-> {dayIndex},
                       timeslots |-> [i \in 1..Len(days[dayIndex]) |->
                                         SyncTimeslot(days[dayIndex][i])],
                       on |-> TRUE,
                       ours |-> TRUE]
         IN SyncedFrom(kept \cup {added}, dayIndex + 1)

\* _onSyncClick, with hass and the entity set.
OnSyncClick ==
    /\ schedules' = SyncedFrom(schedules, 1)
    /\ UNCHANGED cardVars

\* The page is loaded again: a new card with the same configuration, whose
\* firstUpdated loads the days from Home Assistant.
FirstUpdated ==
    /\ days' = LoadedDays(schedules, minutesPerInterval)
    /\ selectedDayIndex' = Null
    /\ selectedSlotIndex' = Null
    /\ draggingTrackDayIndex' = Null
    /\ draggingTrackSlotIndex' = Null
    /\ draggingTrackInitialStart' = 0
    /\ draggingTrackInitialEnd' = 0
    /\ draggingTrackPointerFrac' = FracZero
    /\ draggingBoundaryDayIndex' = Null
    /\ draggingBoundarySlotIndex' = Null
    /\ dragBoundary' = "null"
    /\ dragBoundaryOriginalInterval' = Null
    /\ focusTimeout' = Null
    /\ isDragging' = FALSE
    /\ timers' = {}
    /\ capture' = NoCapture
    /\ UNCHANGED <<time_step, trackWidth, schedules>>

Sync == capture.kind = "none" /\ OnSyncClick /\ Stopwatch(FALSE)

Reload == FirstUpdated /\ Stopwatch(FALSE)

\* A schedule of the configured entity for Monday, 08:00 to 12:00 at 50 degrees,
\* as the scheduler component holds it.
MondaySchedule ==
    [id |-> 1, weekdays |-> {1},
     timeslots |-> << [start |-> <<8, 0, 0>>, stop |-> <<12, 0, 0>>,
                       actions |-> [service |-> "climate.set_temperature",
                                    hvac_mode |-> "heat", temperature |-> 50]] >>,
     on |-> TRUE, ours |-> TRUE]

\* A schedule of the configured entity for Tuesday: off from 06:00 to 08:00, 21
\* degrees from 18:00 to 22:00.
TuesdaySchedule ==
    [id |-> 2, weekdays |-> {2},
     timeslots |-> << [start |-> <<6, 0, 0>>, stop |-> <<8, 0, 0>>,
                       actions |-> [service |-> "climate.set_hvac_mode",
                                    hvac_mode |-> "off", temperature |-> Null]],
                      [start |-> <<18, 0, 0>>, stop |-> <<22, 0, 0>>,
                       actions |-> [service |-> "climate.set_temperature",
                                    hvac_mode |-> "heat", temperature |-> 21]] >>,
     on |-> TRUE, ours |-> TRUE]

----------------------------------------------------------------------------
(* The whole card *)

Next ==
    \/ PointerCancelBoundary
    \/ Sync
    \/ Reload
    \/ DeleteWhileDragging
    \/ GoneTimeslotClick
    \/ GoneTrackPointerDown
    \/ GonePointerDownBoundary
    \/ GonePointerMoveBoundary
    \/ GoneToggle
    \/ GoneUpdateValue
    \/ GoneDelete
    \/ TrackClick
    \/ TimeslotClick
    \/ Toggle
    \/ UpdateValue
    \/ SetMode
    \/ Delete
    \/ TrackPointerDown
    \/ TrackPointerMove
    \/ TrackPointerUp
    \/ PointerDownBoundary
    \/ PointerMoveBoundary
    \/ PointerUpBoundary
    \/ DisconnectedCallback
    \/ Tick
    \/ TimerFire

Spec == Init /\ [][Next]_vars

\* The geometry of the slots: create, select, move, resize, delete.  Time is not
\* counted: the timeout elapses or it does not.
InitDrag == SetConfig(ReadmeConfig) /\ trackWidth = TrackWidth /\ idle = 0 /\ selectedFor = 0 /\ schedules = {}

NextDrag ==
    \/ TrackClick
    \/ TimeslotClick
    \/ Delete
    \/ TrackPointerDown
    \/ TrackPointerMove
    \/ TrackPointerUp
    \/ PointerDownBoundary
    \/ PointerMoveBoundary
    \/ PointerUpBoundary
    \/ TimerElapse

SpecDrag == InitDrag /\ [][NextDrag]_vars

\* The options panel: select, toggle, set a value, delete, press and release a
\* boundary, on configured days (the geometry of the slots stays as configured).
InitPanel == \E config \in Configs \cup {PanelConfig} : SetConfig(config) /\ trackWidth = TrackWidth /\ idle = 0 /\ selectedFor = 0 /\ schedules = {}

NextPanel ==
    \/ TimeslotClick
    \/ Toggle
    \/ UpdateValue
    \/ Delete
    \/ PointerDownBoundary
    \/ PointerUpBoundary
    \/ TimerElapse

SpecPanel == InitPanel /\ [][NextPanel]_vars

\* The selection and its idle timer, with the clock: select, work on the slot,
\* resize it, and let time pass.
InitTimer == SetConfig(ReadmeConfig) /\ trackWidth = TrackWidth /\ idle = 0 /\ selectedFor = 0 /\ schedules = {}

NextTimer ==
    \/ TimeslotClick
    \/ Toggle
    \/ UpdateValue
    \/ SetMode
    \/ Delete
    \/ TrackPointerDown
    \/ TrackPointerUp
    \/ PointerDownBoundary
    \/ PointerMoveBoundary
    \/ PointerUpBoundary
    \/ DisconnectedCallback
    \/ Tick
    \/ TimerFire

SpecTimer == InitTimer /\ [][NextTimer]_vars

\* The clock runs and a due timeout fires.
LiveTimer == SpecTimer /\ WF_vars(Tick) /\ WF_vars(TimerFire)

\* The gestures of one pointer on the configured slot: press, move, release,
\* cancel, leave, on the slot and on its boundaries.
InitGesture == SetConfig(ReadmeConfig) /\ trackWidth = TrackWidth /\ idle = 0 /\ selectedFor = 0 /\ schedules = {}

NextGesture ==
    \/ TimeslotClick
    \/ TrackPointerDown
    \/ TrackPointerMove
    \/ TrackPointerUp
    \/ PointerDownBoundary
    \/ PointerMoveBoundary
    \/ PointerUpBoundary
    \/ PointerCancelBoundary
    \/ TimerElapse

SpecGesture == InitGesture /\ [][NextGesture]_vars

\* Moving the slots of one day on a track where pixels fall between intervals:
\* create, press, move, release.
InitMove == SetConfig(MondayConfig) /\ trackWidth = FineTrackWidth /\ idle = 0 /\ selectedFor = 0 /\ schedules = {}

NextMove ==
    \/ TrackClick
    \/ TrackPointerDown
    \/ TrackPointerMove
    \/ TrackPointerUp

SpecMove == InitMove /\ [][NextMove]_vars

\* Creating and selecting slots, with the clock: click on the track, click and
\* press slots, delete, and let time pass.
InitSelect ==
    /\ \E config \in {ReadmeConfig, HalfHourConfig} : SetConfig(config)
    /\ trackWidth = TrackWidth
    /\ idle = 0
    /\ selectedFor = 0
    /\ schedules = {}

NextSelect ==
    \/ TrackClick
    \/ TimeslotClick
    \/ TrackPointerDown
    \/ TrackPointerUp
    \/ Delete
    \/ Tick
    \/ TimerFire

SpecSelect == InitSelect /\ [][NextSelect]_vars

\* Slots that go while they are referred to: slots are selected, moved and
\* deleted, also during a drag, and events arrive for slots that are gone.
InitStale ==
    /\ \E config \in {ReadmeConfig, PanelConfig} : SetConfig(config)
    /\ trackWidth = TrackWidth
    /\ idle = 0
    /\ selectedFor = 0
    /\ schedules = {}

NextStale ==
    \/ GoneTimeslotClick
    \/ GoneTrackPointerDown
    \/ GonePointerDownBoundary
    \/ GonePointerMoveBoundary
    \/ GoneToggle
    \/ GoneUpdateValue
    \/ GoneDelete
    \/ TimeslotClick
    \/ TrackPointerDown
    \/ TrackPointerMove
    \/ TrackPointerUp
    \/ Delete
    \/ DeleteWhileDragging
    \/ TimerElapse

SpecStale == InitStale /\ [][NextStale]_vars

\* The card before its rows are laid out: no track has a box.
InitNoGeometry ==
    /\ \E config \in {ReadmeConfig, PanelConfig} : SetConfig(config)
    /\ trackWidth = Null
    /\ idle = 0
    /\ selectedFor = 0
    /\ schedules = {}

NextNoGeometry ==
    \/ TrackClick
    \/ TimeslotClick
    \/ TrackPointerDown
    \/ TrackPointerMove
    \/ TrackPointerUp
    \/ PointerDownBoundary
    \/ PointerMoveBoundary
    \/ PointerUpBoundary
    \/ Tick
    \/ TimerFire

SpecNoGeometry == InitNoGeometry /\ [][NextNoGeometry]_vars

\* The card with Home Assistant: the days are loaded from the schedules, slots
\* are selected and deleted, the days are synced and the page is loaded again.
InitSync ==
    \E step \in TimeSteps, remote \in SUBSET {MondaySchedule, TuesdaySchedule} :
        \* setConfig, then firstUpdated replaces _days with the loaded days
        /\ SetConfig([hasDays |-> TRUE, days |-> LoadedDays(remote, step),
                      time_step |-> step])
        /\ trackWidth = TrackWidth
        /\ idle = 0
        /\ selectedFor = 0
        /\ schedules = remote

NextSync ==
    \/ TimeslotClick
    \/ Delete
    \/ Sync
    \/ Reload

SpecSync == InitSync /\ [][NextSync]_vars

\* Writing the bounds of a slot and reading them back: a card whose Monday has
\* one slot, for every step of the editor and all bounds on its grid, is synced
\* and the page is loaded again.
InitRoundTrip ==
    \E step \in TimeSteps :
        \E start, end \in 0..((24 * 60) \div step) :
            /\ start < end
            /\ SetConfig([hasDays |-> TRUE,
                          days |-> << <<Slot(start, end, TRUE, 20)>> >>,
                          time_step |-> step])
            /\ trackWidth = TrackWidth
            /\ idle = 0
            /\ selectedFor = 0
            /\ schedules = {}

NextRoundTrip ==
    \/ Sync
    \/ Reload

SpecRoundTrip == InitRoundTrip /\ [][NextRoundTrip]_vars

----------------------------------------------------------------------------
(* Properties *)

\* a.start < b.end && b.start < a.end
Intersect(aStart, aEnd, bStart, bEnd) == Lt(aStart, bEnd) /\ Lt(bStart, aEnd)

\* The interval [start, end) intersects a slot of the day other than slotIndex
\* (slotIndex 0: any slot of the day).
IntersectsOther(dayIndex, slotIndex, start, end) ==
    \E j \in SlotIndices(dayIndex) \ {slotIndex} :
        Intersect(start, end, days[dayIndex][j].start, days[dayIndex][j].end)

\* C1: after any sequence of click-to-create, move samples, resize samples and
\* deletes, no two distinct slots a, b of one day have a.start < b.end and
\* b.start < a.end; touching endpoints are allowed.
NoOverlap ==
    \A dayIndex \in 1..Len(days) :
        \A i, j \in SlotIndices(dayIndex) :
            i # j => ~Intersect(days[dayIndex][i].start, days[dayIndex][i].end,
                                days[dayIndex][j].start, days[dayIndex][j].end)

\* Two slots of a day touch while the end of the first is being dragged, and a
\* sample further right would run into the second.
TouchingWhileResizing ==
    \E dayIndex \in DayIndices :
        \E i, j \in SlotIndices(dayIndex) :
            /\ i # j
            /\ days[dayIndex][i].end = days[dayIndex][j].start
            /\ days[dayIndex][i].start < days[dayIndex][i].end
            /\ days[dayIndex][j].start < days[dayIndex][j].end
            /\ BoundarySessionOn(dayIndex, i, "end")
            /\ dragBoundaryOriginalInterval # days[dayIndex][i].end
            /\ \E px \in PointerXs : BoundaryInterval(px) > days[dayIndex][j].start

\* C2: every stored slot has 0 <= start < end <= maxIntervals, from the state
\* right after setConfig (default days included) onward; no zero-length or
\* inverted slot is stored.
SlotsWellFormed ==
    \A dayIndex \in 1..Len(days) :
        \A slotIndex \in SlotIndices(dayIndex) :
            LET slot == days[dayIndex][slotIndex]
            IN /\ ~IsNaN(slot.start) /\ ~IsNaN(slot.end)
               /\ 0 <= slot.start
               /\ slot.start < slot.end
               /\ slot.end <= maxIntervals

\* The click at px on the empty track of the day proposes a slot that intersects one.
ClickRejected(dayIndex, px) ==
    /\ ~OnChild(dayIndex, px)
    /\ IntersectsOther(dayIndex, 0, ClickIntervalStart(px), ClickIntervalEnd(px))

\* The move sample at px proposes a position that intersects another slot.
MoveRejected(px) ==
    /\ TrackSessionActive
    /\ draggingTrackSlotIndex \in SlotIndices(draggingTrackDayIndex)
    /\ IntersectsOther(draggingTrackDayIndex, draggingTrackSlotIndex,
                       MoveStart(px, draggingTrackInitialStart, draggingTrackInitialEnd,
                                 draggingTrackPointerFrac),
                       MoveEnd(px, draggingTrackInitialStart, draggingTrackInitialEnd,
                               draggingTrackPointerFrac))

\* The resize sample at px crosses the slot's other boundary.
ResizeOutOfBound(dayIndex, slotIndex, boundary, px) ==
    /\ BoundarySessionOn(dayIndex, slotIndex, boundary)
    /\ IF boundary = "start"
       THEN Gt(BoundaryInterval(px), days[dayIndex][slotIndex].end)
       ELSE Lt(BoundaryInterval(px), days[dayIndex][slotIndex].start)

\* The resize sample at px makes the slot intersect another slot.
ResizeIntoOther(dayIndex, slotIndex, boundary, px) ==
    /\ BoundarySessionOn(dayIndex, slotIndex, boundary)
    /\ IF boundary = "start"
       THEN IntersectsOther(dayIndex, slotIndex, BoundaryInterval(px),
                            days[dayIndex][slotIndex].end)
       ELSE IntersectsOther(dayIndex, slotIndex, days[dayIndex][slotIndex].start,
                            BoundaryInterval(px))

ResizeRejected(dayIndex, slotIndex, boundary, px) ==
    \/ ResizeOutOfBound(dayIndex, slotIndex, boundary, px)
    \/ ResizeIntoOther(dayIndex, slotIndex, boundary, px)

\* C3: a rejected click-to-create proposal, move sample or resize sample (overlap
\* with another slot of the day, or a bound violation) leaves the days and all
\* their slots as they were, and the gesture's session stays as it was, so later
\* samples continue it.
RejectedIsNoOp ==
    [][/\ \/ UNCHANGED <<storeVars, selVars>>
          \/ \A dayIndex \in DayIndices, px \in ClickXs :
                 ~(ClickRejected(dayIndex, px) /\ OnTrackClick(dayIndex, px))
       /\ \/ UNCHANGED <<storeVars, trackVars, isDragging, capture>>
          \/ \A px \in PointerXs : ~(MoveRejected(px) /\ OnTrackPointerMove(px))
       /\ \/ UNCHANGED <<storeVars, boundaryVars, isDragging, capture>>
          \/ \A x \in Slots, boundary \in Boundaries, px \in PointerXs :
                 ~(/\ ResizeRejected(x[1], x[2], boundary, px)
                   /\ OnPointerMoveBoundary(x[1], x[2], boundary, px))
      ]_vars

\* In the middle of a move that has already displaced the slot, one sample is
\* rejected and another would still be applied.
RejectedSampleMidDrag ==
    /\ TrackSessionActive
    /\ draggingTrackSlotIndex \in SlotIndices(draggingTrackDayIndex)
    /\ days[draggingTrackDayIndex][draggingTrackSlotIndex].start # draggingTrackInitialStart
    /\ \E px \in PointerXs : MoveRejected(px)
    /\ \E px \in PointerXs :
           /\ ~MoveRejected(px)
           /\ MoveStart(px, draggingTrackInitialStart, draggingTrackInitialEnd,
                        draggingTrackPointerFrac)
                  # days[draggingTrackDayIndex][draggingTrackSlotIndex].start

\* C4: every move sample that is applied leaves the slot with end - start equal
\* to the duration recorded at drag start, also when clamped at 0 or maxIntervals.
MovePreservesDuration ==
    [][\A px \in PointerXs :
           (OnTrackPointerMove(px) /\ days' # days)
               => LET slot == days'[draggingTrackDayIndex][draggingTrackSlotIndex]
                  IN /\ ~IsNaN(slot.start) /\ ~IsNaN(slot.end)
                     /\ ~IsNaN(draggingTrackInitialStart)
                     /\ ~IsNaN(draggingTrackInitialEnd)
                     /\ slot.end - slot.start
                            = draggingTrackInitialEnd - draggingTrackInitialStart
      ]_vars

\* C5: when a slot is selected and from some point on nothing happens but the
\* passing of time, the timeout eventually fires and the selection is none
\* (selected day index and selected slot index both cleared) for good.
IdleSelectionClears ==
    <>[][Tick \/ TimerFire]_vars
        => <>[](selectedDayIndex = Null /\ selectedSlotIndex = Null)

\* C6: while a slot is selected, each pending timeout has at least one full timeout
\* less the time since the last value change, toggle, resize sample or click on
\* the selected slot still to run: such an event restarts the countdown from its
\* full duration, and the timer clears the selection no earlier than one full
\* timeout after it.
CountdownRestarts ==
    selectedDayIndex # Null =>
        \A t \in timers : t.remaining + idle >= TimeoutTicks

\* A slot is still selected later than one timeout after it was selected, its
\* boundary being dragged, with the countdown running.
SurvivesOriginalTimeout ==
    /\ selectedDayIndex # Null
    /\ selectedFor > TimeoutTicks
    /\ idle < TimeoutTicks
    /\ \E boundary \in Boundaries :
           BoundarySessionOn(selectedDayIndex, selectedSlotIndex, boundary)
    /\ \E t \in timers : t.id = focusTimeout /\ t.remaining > 0

\* C7: deleting the slot at index k of a day leaves that day with the other slots
\* in their order, those before k at their index and those after k one index
\* lower, and leaves every other day as it was.
DeleteShiftsIndices ==
    [][\/ days' = days
       \/ \A x \in Slots :
              DeleteSlot(x[1], x[2]) =>
                  /\ Len(days') = Len(days)
                  /\ \A dayIndex \in 1..Len(days) :
                         dayIndex # x[1] => days'[dayIndex] = days[dayIndex]
                  /\ Len(days'[x[1]]) = Len(days[x[1]]) - 1
                  /\ \A i \in 1..Len(days[x[1]]) :
                         /\ i < x[2] => days'[x[1]][i] = days[x[1]][i]
                         /\ i > x[2] => days'[x[1]][i - 1] = days[x[1]][i]
      ]_vars

\* The middle slot of the three-slot day has been deleted: the first slot is at
\* index 1 and the third at index 2.
MiddleSlotDeleted ==
    /\ Len(days) = Len(PanelDays)
    /\ days[1] = <<PanelDays[1][1], PanelDays[1][3]>>
    /\ days[2] = PanelDays[2]

ResizeChangesOneBoundary ==
    [][\/ days' = days
       \/ \A x \in Slots, boundary \in Boundaries, px \in PointerXs :
              OnPointerMoveBoundary(x[1], x[2], boundary, px) =>
                  LET old == days[x[1]][x[2]]
                      new == days'[x[1]][x[2]]
                  IN /\ Len(days') = Len(days)
                     /\ \A dayIndex \in 1..Len(days) :
                            /\ Len(days'[dayIndex]) = Len(days[dayIndex])
                            /\ \A slotIndex \in SlotIndices(dayIndex) :
                                   <<dayIndex, slotIndex>> # x =>
                                       days'[dayIndex][slotIndex] = days[dayIndex][slotIndex]
                     /\ new.on = old.on
                     /\ new.value = old.value
                     /\ boundary = "start" => new.end = old.end
                     /\ boundary = "end" => new.start = old.start
                     /\ ResizeRejected(x[1], x[2], boundary, px) => new = old
      ]_vars

\* The end of a slot has been dragged from where it was; of the next samples one
\* would put it below the slot's start and one would run into another slot.
ResizedBetweenLimits ==
    \E x \in Slots :
        /\ BoundarySessionOn(x[1], x[2], "end")
        /\ days[x[1]][x[2]].end # dragBoundaryOriginalInterval
        /\ days[x[1]][x[2]].start < days[x[1]][x[2]].end
        /\ \E px \in PointerXs : ResizeOutOfBound(x[1], x[2], "end", px)
        /\ \E px \in PointerXs : ResizeIntoOther(x[1], x[2], "end", px)

\* C10: a pointer-down on a boundary of a slot that is not the selected slot
\* changes nothing (no resize session, days, selection and timeout as they
\* were); a resize session only starts on the selected slot.
BoundaryDownNeedsSelection ==
    [][/\ \/ UNCHANGED cardVars
          \/ \A x \in Slots, boundary \in Boundaries :
                 ~(~IsSelected(x[1], x[2]) /\ OnPointerDownBoundary(x[1], x[2], boundary))
       /\ (boundaryVars' # boundaryVars /\ draggingBoundaryDayIndex' # Null)
              => /\ IsSelected(draggingBoundaryDayIndex', draggingBoundarySlotIndex')
                 /\ UNCHANGED selVars
      ]_vars

\* A resize session runs on the selected slot of a day that has another slot,
\* which is not selected.
SessionOnSelectedOfTwo ==
    \E x \in Slots, boundary \in Boundaries :
        /\ IsSelected(x[1], x[2])
        /\ BoundarySessionOn(x[1], x[2], boundary)
        /\ \E y \in Slots : y[1] = x[1] /\ y[2] # x[2]

\* C11: an accepted click on empty track appends one slot to the day, at the
\* index of the day's old length, with on = TRUE, 120 / minutesPerInterval
\* intervals long, starting at the clicked interval, or at maxIntervals minus
\* that length when it would otherwise end after maxIntervals; the slots that
\* existed are unchanged.
ClickAppendsDefaultSlot ==
    [][\/ days' = days
       \/ \A dayIndex \in DayIndices, px \in ClickXs :
              OnTrackClick(dayIndex, px) =>
                  LET n == Len(days[dayIndex])
                      new == days'[dayIndex][n + 1]
                      length == 120 \div minutesPerInterval
                  IN /\ Len(days') = Len(days)
                     /\ \A d \in 1..Len(days) : d # dayIndex => days'[d] = days[d]
                     /\ Len(days'[dayIndex]) = n + 1
                     /\ \A i \in 1..n : days'[dayIndex][i] = days[dayIndex][i]
                     /\ new.on = TRUE
                     /\ new.end - new.start = length
                     /\ \E k \in 0..maxIntervals :
                            /\ k * trackWidth <= px * maxIntervals
                            /\ px * maxIntervals < (k + 1) * trackWidth
                            /\ new.start = (IF k + length > maxIntervals
                                            THEN maxIntervals - length ELSE k)
      ]_vars

\* A click at the right end of the first day's track has added the slot that ends
\* at maxIntervals behind the configured one.
SlotShiftedIntoTrack ==
    /\ Len(days[1]) = 2
    /\ days[1][1] = ReadmeDays[1][1]
    /\ days[1][2].end = maxIntervals
    /\ days[1][2].start = maxIntervals - 120 \div minutesPerInterval
    /\ days[1][2].on
    /\ IsSelected(1, 2)

\* C12: a click on empty track whose proposed slot overlaps a slot of the day adds
\* no slot, leaves the selection as it was, and neither cancels nor restarts the
\* pending timeout.
OverlappingClickIgnored ==
    [][\/ UNCHANGED <<storeVars, selVars, timerVars>>
       \/ \A dayIndex \in DayIndices, px \in ClickXs :
              ~(ClickRejected(dayIndex, px) /\ OnTrackClick(dayIndex, px))
      ]_vars

\* A slot is selected, part of its timeout has run, and a click on the empty track
\* of its day would propose a slot that overlaps one.
OverlappingClickWhileCounting ==
    /\ selectedDayIndex # Null
    /\ \E t \in timers : t.id = focusTimeout /\ t.remaining < TimeoutTicks
    /\ TotalSlots < MaxSlots
    /\ \E px \in ClickXs : ClickRejected(selectedDayIndex, px)

\* The pending timeouts are the one of focusTimeout, with its whole duration to run.
FreshlyArmed ==
    timers' = {[id |-> focusTimeout', remaining |-> TimeoutTicks]}

\* C13: after a click on a slot, an accepted click on empty track, or a pointer-down
\* on a slot, the selection is that slot, and the only timeout pending is a freshly
\* armed one (the one pending before has been cancelled).
SelectionIsThatSlot ==
    [][/\ \A x \in Slots :
              OnTimeslotClick(x[1], x[2]) =>
                  /\ selectedDayIndex' = x[1] /\ selectedSlotIndex' = x[2]
                  /\ FreshlyArmed
       /\ \A x \in Slots, px \in ClickXs :
              OnTrackPointerDown(x[1], x[2], px) =>
                  /\ selectedDayIndex' = x[1] /\ selectedSlotIndex' = x[2]
                  /\ FreshlyArmed
       /\ \A dayIndex \in DayIndices, px \in ClickXs :
              (OnTrackClick(dayIndex, px) /\ days' # days) =>
                  /\ selectedDayIndex' = dayIndex
                  /\ selectedSlotIndex' = Len(days[dayIndex]) + 1
                  /\ FreshlyArmed
      ]_vars

\* The first day has the configured slot and a slot created by a click, which was
\* selected then; the configured slot has been pressed and is the selected one.
PressedSlotReplacesSelection ==
    /\ Len(days[1]) = 2
    /\ IsSelected(1, 1)
    /\ TrackSessionActive
    /\ draggingTrackSlotIndex = 1
    /\ timers = {[id |-> focusTimeout, remaining |-> TimeoutTicks]}

\* C14: a resize sample whose new boundary equals the slot's other boundary (new
\* start = end, or new end = start) is rejected and leaves the slot unchanged.
ZeroLengthResizeRejected ==
    [][\/ days' = days
       \/ \A x \in Slots, boundary \in Boundaries, px \in PointerXs :
              (/\ BoundarySessionOn(x[1], x[2], boundary)
               /\ BoundaryInterval(px) = (IF boundary = "start" THEN days[x[1]][x[2]].end
                                          ELSE days[x[1]][x[2]].start)
               /\ OnPointerMoveBoundary(x[1], x[2], boundary, px))
                  => days'[x[1]][x[2]] = days[x[1]][x[2]]
      ]_vars

BoundarySessionActive ==
    draggingBoundaryDayIndex # Null \/ draggingBoundarySlotIndex # Null
        \/ dragBoundary # "null" \/ dragBoundaryOriginalInterval # Null

\* C15: at most one drag session is active: the fields of the move session and
\* the fields of the resize session are never both set.
OneDragSession == ~(TrackSessionActive /\ BoundarySessionActive)

\* C16: every pointer-up, pointer-cancel or pointer-leave that ends a gesture
\* (the pointer is no longer held by a slot or boundary) leaves no drag session
\* active and all transient drag fields cleared.
GestureEndClearsSession ==
    [][(capture.kind # "none" /\ capture'.kind = "none")
           => /\ draggingTrackDayIndex' = Null
              /\ draggingTrackSlotIndex' = Null
              /\ draggingTrackInitialStart' = 0
              /\ draggingTrackInitialEnd' = 0
              /\ draggingTrackPointerFrac' = FracZero
              /\ draggingBoundaryDayIndex' = Null
              /\ draggingBoundarySlotIndex' = Null
              /\ dragBoundary' = "null"
              /\ dragBoundaryOriginalInterval' = Null
              /\ isDragging' = FALSE
      ]_vars

\* C17: after the selected slot is deleted the selection is none and no timeout
\* is pending: the timeout armed for the deleted slot has been cancelled.
DeleteCancelsTimeout ==
    [][\A x \in Slots :
           (IsSelected(x[1], x[2]) /\ DeleteSlot(x[1], x[2]))
               => /\ selectedDayIndex' = Null
                  /\ selectedSlotIndex' = Null
                  /\ timers' = {}
      ]_vars

\* C18: at most one timeout is pending, the one _focusTimeout names: every arming
\* cancels the pending one first, and a timeout that has fired is no longer
\* recorded.
SingleTimeout ==
    [][/\ Cardinality(timers') <= 1
       /\ \A t \in timers' : t.id = focusTimeout'
       /\ TimerFire => (timers' = {} /\ focusTimeout' = Null)
      ]_vars

\* A slot has been selected for some time and has just been worked on: one
\* timeout is pending, with its whole duration to run.
RearmedWhileCounting ==
    /\ selectedDayIndex # Null
    /\ selectedFor > 0
    /\ idle = 0
    /\ Cardinality(timers) = 1
    /\ \A t \in timers : t.id = focusTimeout /\ t.remaining = TimeoutTicks

\* originalStart + round(pointerInterval - anchorInterval), with pointerInterval
\* = px * maxIntervals / trackWidth and anchorInterval = originalStart +
\* frac * duration, frac = <<num, den>>.
StatedStart(px, originalStart, originalEnd, frac) ==
    originalStart
        + Round(px * maxIntervals * frac[2]
                    - (originalStart * frac[2] + frac[1] * (originalEnd - originalStart))
                          * trackWidth,
                trackWidth * frac[2])

\* The stated start shifted into the track: to 0 if below 0, then to maxIntervals
\* - duration if the slot would end after maxIntervals.
StatedShiftedStart(px, originalStart, originalEnd, frac) ==
    LET duration == originalEnd - originalStart
        start0 == StatedStart(px, originalStart, originalEnd, frac)
        start1 == IF start0 < 0 THEN 0 ELSE start0
    IN IF start1 + duration > maxIntervals THEN maxIntervals - duration ELSE start1

\* px is where the pointer went down, inside the slot.
AtGrabPosition(px) ==
    /\ draggingTrackInitialStart < draggingTrackInitialEnd
    /\ draggingTrackInitialStart * trackWidth <= px * maxIntervals
    /\ px * maxIntervals <= draggingTrackInitialEnd * trackWidth
    /\ draggingTrackPointerFrac
           = PointerFrac(px, Slot(draggingTrackInitialStart, draggingTrackInitialEnd,
                                  TRUE, 0))

\* C19: a move sample that is applied puts the slot at newStart = originalStart +
\* round(pointerInterval - anchorInterval), newEnd = newStart + duration, shifted
\* into [0, maxIntervals]; a sample at the position of the pointer-down of a grab
\* inside the slot leaves the slot at its original bounds.
MoveFollowsStatedFormula ==
    [][\A px \in PointerXs :
           (/\ OnTrackPointerMove(px)
            /\ draggingTrackSlotIndex \in SlotIndices(draggingTrackDayIndex)
            /\ draggingTrackPointerFrac # FracNaN
            /\ ~MoveRejected(px))
               => LET new == days'[draggingTrackDayIndex][draggingTrackSlotIndex]
                      start == StatedShiftedStart(px, draggingTrackInitialStart,
                                                  draggingTrackInitialEnd,
                                                  draggingTrackPointerFrac)
                  IN /\ new.start = start
                     /\ new.end = start + (draggingTrackInitialEnd - draggingTrackInitialStart)
                     /\ AtGrabPosition(px) =>
                            /\ new.start = draggingTrackInitialStart
                            /\ new.end = draggingTrackInitialEnd
      ]_vars

\* C20: within one move session the bounds a slot takes when a sample is applied
\* are determined by the bounds and anchor recorded at the pointer-down and by the
\* sample's pointer position, whatever the earlier samples made of the slot.
MoveFromRecordedBounds ==
    [][\/ days' = days
       \/ \A px \in PointerXs :
              OnTrackPointerMove(px) =>
                  LET new == days'[draggingTrackDayIndex][draggingTrackSlotIndex]
                  IN /\ new.start = MoveStart(px, draggingTrackInitialStart,
                                              draggingTrackInitialEnd,
                                              draggingTrackPointerFrac)
                     /\ new.end = MoveEnd(px, draggingTrackInitialStart,
                                          draggingTrackInitialEnd,
                                          draggingTrackPointerFrac)
      ]_vars

\* A slot grabbed in its middle has been moved away from where it was, next to
\* another slot of its day, and a further sample would bring it back.
MovedAwayCanReturn ==
    /\ TrackSessionActive
    /\ draggingTrackSlotIndex \in SlotIndices(draggingTrackDayIndex)
    /\ draggingTrackPointerFrac \notin {FracNaN, FracZero, FracOne}
    /\ Len(days[draggingTrackDayIndex]) = 2
    /\ days[draggingTrackDayIndex][draggingTrackSlotIndex].start
           # draggingTrackInitialStart
    /\ \E px \in PointerXs : MoveRejected(px)
    /\ \E px \in PointerXs :
           /\ ~MoveRejected(px)
           /\ MoveStart(px, draggingTrackInitialStart, draggingTrackInitialEnd,
                        draggingTrackPointerFrac) = draggingTrackInitialStart

\* pixelToInterval as stated: round(offset / width * maxIntervals), .5 up, clamped
\* to [0, maxIntervals].
PixelToInterval(px) ==
    LET interval == Round(px * maxIntervals, trackWidth)
    IN IF interval < 0 THEN 0
       ELSE IF interval > maxIntervals THEN maxIntervals
       ELSE interval

\* C21: the interval computed from a pointer offset is round(offset / width *
\* maxIntervals) clamped to [0, maxIntervals], for click-to-create (the created
\* slot starts there, or ends at maxIntervals when it would not fit) and for
\* boundary drags (the dragged boundary lands there).
PointerOffsetIsRounded ==
    [][/\ \A dayIndex \in DayIndices, px \in ClickXs :
              (OnTrackClick(dayIndex, px) /\ days' # days) =>
                  LET new == days'[dayIndex][Len(days'[dayIndex])]
                      interval == PixelToInterval(px)
                      start == IF interval + intervalsPer2Hours > maxIntervals
                               THEN maxIntervals - intervalsPer2Hours
                               ELSE interval
                  IN new.start = start /\ new.end = start + intervalsPer2Hours
       /\ \A x \in Slots, boundary \in Boundaries, px \in PointerXs :
              (OnPointerMoveBoundary(x[1], x[2], boundary, px) /\ days' # days) =>
                  LET new == days'[x[1]][x[2]]
                  IN IF boundary = "start" THEN new.start = PixelToInterval(px)
                     ELSE new.end = PixelToInterval(px)
      ]_vars

\* C25: while a drag session (whole-slot move or boundary resize) is active the
\* dragged slot is the selected slot; so every state a move or resize sample can
\* act in has the selection on the slot the sample modifies.
DraggedSlotStaysSelected ==
    /\ TrackSessionActive =>
           IsSelected(draggingTrackDayIndex, draggingTrackSlotIndex)
    /\ BoundarySessionActive =>
           IsSelected(draggingBoundaryDayIndex, draggingBoundarySlotIndex)

\* Slot i of the day starts before slot j.
StartsBefore(dayIndex, i, j) == Lt(days[dayIndex][i].start, days[dayIndex][j].start)

\* C26: a move sample never carries the dragged slot past another slot of its
\* day: which slot starts before which is the same after the sample as before it,
\* hence the same as at drag start.
MoveKeepsTimeOrder ==
    [][\/ days' = days
       \/ \A px \in PointerXs :
              OnTrackPointerMove(px) =>
                  \A i, j \in SlotIndices(draggingTrackDayIndex) :
                      StartsBefore(draggingTrackDayIndex, i, j)
                          <=> StartsBefore(draggingTrackDayIndex, i, j)'
      ]_vars

SelectedHasPendingTimeout ==
    (selectedDayIndex # Null /\ selectedSlotIndex # Null) =>
        \E t \in timers : t.id = focusTimeout

\* <<start, end>> of each slot of a day.
Bounds(slots) == [i \in 1..Len(slots) |-> <<slots[i].start, slots[i].end>>]

\* The timeslots _syncSchedules writes for the day.
SyncTimeslots(dayIndex) ==
    [i \in 1..Len(days[dayIndex]) |-> SyncTimeslot(days[dayIndex][i])]

\* The day has been synced: its one schedule carries the time strings of its slots.
DaySynced(dayIndex) ==
    \E s \in schedules :
        /\ Matching(schedules, dayIndex) = {s}
        /\ s.timeslots = SyncTimeslots(dayIndex)

\* C29: for each step in {10, 15, 30, 60} and each slot with 0 <= start < end <=
\* maxIntervals, the time strings sync writes for the slot, read back by the load
\* path, give the same start and end, and the slot is not dropped.
RoundTripKeepsBounds ==
    [][\A dayIndex \in 1..Len(days) :
           (Reload /\ Len(days[dayIndex]) > 0 /\ DaySynced(dayIndex)) =>
               /\ dayIndex <= Len(days')
               /\ Bounds(days'[dayIndex]) = Bounds(days[dayIndex])
      ]_vars

\* C30: after a sync whose calls all succeed, a day with slots has exactly one
\* enabled schedule of the entity, carrying the day's slots, and a day without
\* slots has no enabled schedule of the entity left.
SyncMatchesLocal ==
    [][Sync =>
           \A dayIndex \in 1..Len(days) :
               LET enabled == Matching(schedules', dayIndex)
               IN IF Len(days[dayIndex]) > 0
                  THEN \E s \in enabled :
                           /\ enabled = {s}
                           /\ s.timeslots = SyncTimeslots(dayIndex)
                  ELSE enabled = {}
      ]_vars

\* The fields the card's handlers work on besides the pointer a slot holds.
coreVars == <<days, selVars, timerVars, trackVars, boundaryVars>>

\* C22: any delete cancels the active drag session: after a delete neither a
\* move session nor a resize session is left that a later sample could apply to
\* the slot now standing at the cached index.
DeleteCancelsDrag ==
    [][(\E x \in Slots : DeleteSlot(x[1], x[2])) =>
           (~TrackSessionActive /\ ~BoundarySessionActive)'
      ]_vars

\* An event or operation of the card that names the slot x.
NamesSlot(x) ==
    \/ OnTimeslotClick(x[1], x[2])
    \/ \E px \in ClickXs : OnTrackPointerDown(x[1], x[2], px)
    \/ \E boundary \in Boundaries : OnPointerDownBoundary(x[1], x[2], boundary)
    \/ \E boundary \in Boundaries, px \in PointerXs :
           OnPointerMoveBoundary(x[1], x[2], boundary, px)
    \/ /\ draggingTrackDayIndex = x[1]
       /\ draggingTrackSlotIndex = x[2]
       /\ \E px \in PointerXs : OnTrackPointerMove(px)
    \/ ToggleSlotOnOff(x[1], x[2])
    \/ \E newValue \in NewValues : UpdateSlotValue(x[1], x[2], newValue)
    \/ DeleteSlot(x[1], x[2])

NeedsGeometry ==
    \/ \E dayIndex \in DayIndices, px \in ClickXs : OnTrackClick(dayIndex, px)
    \/ \E x \in Slots, px \in ClickXs : OnTrackPointerDown(x[1], x[2], px)
    \/ \E px \in PointerXs : OnTrackPointerMove(px)
    \/ \E x \in Slots, boundary \in Boundaries, px \in PointerXs :
           OnPointerMoveBoundary(x[1], x[2], boundary, px)

====
